---- MODULE Spec2Model ----
(***************************************************************************)
(* Model of src/src/github-issues-prs.ts (GitHubIssuesPrsProvider).        *)
(*                                                                         *)
(* Spec           the host-facing provider: getChildren / refresh / poll,  *)
(*                the cached promise, the busy flag, the change event, on  *)
(*                a JavaScript event loop (macrotasks + FIFO microtasks).  *)
(* SpecAgg        one run of fetchChildren: the aggregation loop over the  *)
(*                remotes, one step per awaited network call, then the     *)
(*                tree builder.                                            *)
(* SpecTree       the tree builder (lines 143-165) and getChildren(group)  *)
(*                on every bounded list of issue leaves.                   *)
(* SpecMilestones getCurrentMilestones on every bounded milestone listing. *)
(* SpecRemotes    getGitHubRemotes on every bounded `git remote -v` output.*)
(*                                                                         *)
(* fetchChildren reads and writes no field of the provider (fetching,      *)
(* lastFetch, children), so Spec keeps of a build only whether it is       *)
(* pending, returned or threw, and SpecAgg follows one build step by step. *)
(***************************************************************************)
EXTENDS Integers, Sequences, FiniteSets, TLC

VARIABLES
    \* ---- provider fields (lines 35-42) and the event loop
    now,          \* Date.now(), in ms
    fetching,     \* this.fetching
    lastFetch,    \* this.lastFetch (Undefined until the first build starts)
    children,     \* this.children: Undefined or the id of a promise
    promise,      \* promise[id]: "pending" | "fulfilled" | "rejected"
    reactions,    \* reactions[id]: continuations registered on promise id, in order
    microtasks,   \* FIFO queue of promise jobs still to run in this macrotask
    returned,     \* what the last getChildren(root) call handed to the host
    fires,        \* log of _onDidChangeTreeData.fire() calls: the build awaited by each
    \* ---- history of the run, read only by the properties
    startedBy,    \* startedBy[id]: "host" | "refresh", who started build id
    lastDone,     \* Date.now() when a build last fulfilled (Undefined before)
    lastOp,       \* the last handler that ran, and what it did
    \* ---- one run of fetchChildren (lines 89-166)
    pc,           \* where the run stands
    rootPath,     \* workspace.rootPath is set
    gitRemotes,   \* what getGitHubRemotes() gives: [threw, remotes]
    ri,           \* index of the remote the loop of line 106 is at
    msQueue,      \* milestones of that remote still to search (loop of line 113)
    q,            \* the last search query built (lines 114-120)
    issues,       \* const issues (line 104)
    errors,       \* const errors (line 105)
    result,       \* what fetchChildren returned or threw: [status, value]
    served,       \* what getChildren(element) returned for a Milestone element
    denied,       \* history: indices of the remotes whose call failed with 404
    got,          \* history: got[i] = the leaves the searches of remote i produced
    \* ---- getCurrentMilestones (lines 221-236)
    msData,       \* res.data of issues.getMilestones
    msOut,        \* [done, titles]
    \* ---- getGitHubRemotes (lines 238-252)
    stdout,       \* lines of `git remote -v`
    noCredential, \* the URLs for which fill(url) returns no data
    remotesOut    \* [done, remotes]

provVars == <<now, fetching, lastFetch, children, promise, reactions, microtasks,
              returned, fires, startedBy, lastDone, lastOp>>

aggVars == <<pc, rootPath, gitRemotes, ri, msQueue, q, issues, errors, result, served,
             denied, got>>

msVars == <<msData, msOut>>

remVars == <<stdout, noCredential, remotesOut>>

vars == <<provVars, aggVars, msVars, remVars>>

\* undefined, for the fields that otherwise hold a positive number (a time stamp, a
\* promise id): line 84 reads lastFetch through "!", which takes undefined and 0 alike
Undefined == 0

\* ------------------------------------------------------------------ bounds
\* builds one run may start
MaxBuilds == 3
\* how far one Tick advances the clock (10 minutes, in ms)
TickMs == 600000
\* clock ticks one run may take
MaxTicks == 5

\* ------------------------------------------------------------ the provider
\* line 84: 30 * 60 * 1000
StaleMs == 30 * 60 * 1000

\* Builds whose fetchChildren() run has not settled yet.
InFlight == {id \in 1..Len(promise) : promise[id] = "pending"}

\* Macrotasks (host calls, command invocations, network completions, the clock)
\* start only when the microtask queue has drained.
Idle == microtasks = <<>>

\* lines 65-72, entered with this.children = c; awaiting = the continuation the
\* caller hangs on the returned promise (<<>> for the host).
getChildren(c, who, awaiting) ==
    IF c = Undefined
    THEN /\ Len(promise) < MaxBuilds
         /\ fetching' = TRUE                                   \* line 66
         /\ lastFetch' = now                                   \* line 67
         /\ promise' = Append(promise, "pending")              \* line 68
         /\ children' = Len(promise) + 1
         /\ reactions' = Append(reactions, <<"then">> \o awaiting)  \* line 69, then 72
         /\ startedBy' = Append(startedBy, who)
    ELSE /\ children' = c
         /\ reactions' = [reactions EXCEPT ![c] = @ \o awaiting]
         /\ UNCHANGED <<fetching, lastFetch, promise, startedBy>>

\* refresh without its busy check
refreshGuardAlways == TRUE

\* line 76
refreshGuard == ~fetching

\* lines 75-81 up to the await of line 78
refresh(op) ==
    IF refreshGuard
    THEN /\ getChildren(Undefined, "refresh", <<"refresh">>)   \* lines 77-78
         /\ lastOp' = <<op, "build">>
    ELSE /\ UNCHANGED <<fetching, lastFetch, promise, children, reactions, startedBy>>
         /\ lastOp' = <<op, "dropped">>

\* the staleness test with "at least 30 minutes" for "more than 30 minutes"
pollGuardAtLeast == lastFetch = Undefined \/ lastFetch + StaleMs <= now

\* line 84
pollGuard == lastFetch = Undefined \/ lastFetch + StaleMs < now

\* getChildren(undefined), called by the host's tree view
GetChildrenRoot ==
    /\ Idle
    /\ getChildren(children, "host", <<>>)
    /\ returned' = children'
    /\ lastOp' = <<"getChildren", IF children = Undefined THEN "build" ELSE "cached">>
    /\ UNCHANGED <<now, microtasks, fires, lastDone>>
    /\ UNCHANGED <<aggVars, msVars, remVars>>

\* the githubIssuesPrs.refresh command (line 45)
Refresh ==
    /\ Idle
    /\ refresh("refresh")
    /\ UNCHANGED <<now, microtasks, returned, fires, lastDone>>
    /\ UNCHANGED <<aggVars, msVars, remVars>>

\* window.onDidChangeActiveTextEditor (line 53), lines 83-87
Poll ==
    /\ Idle
    /\ IF pollGuard
       THEN refresh("poll")
       ELSE /\ UNCHANGED <<fetching, lastFetch, promise, children, reactions, startedBy>>
            /\ lastOp' = <<"poll", "fresh">>
    /\ UNCHANGED <<now, microtasks, returned, fires, lastDone>>
    /\ UNCHANGED <<aggVars, msVars, remVars>>

\* The jobs a settled promise queues, one per registered reaction, in order.
\* The callback of line 69 has no rejection handler: a rejection queues nothing for it.
RECURSIVE jobsOf(_, _, _)
jobsOf(rs, id, ok) ==
    IF rs = <<>> THEN <<>>
    ELSE (IF Head(rs) = "then" /\ ~ok THEN <<>> ELSE << <<Head(rs), id, ok>> >>)
         \o jobsOf(Tail(rs), id, ok)

\* fetchChildren() of build id returns (ok) or throws (~ok): lines 89-166
BuildSettle(id, ok) ==
    /\ Idle
    /\ id \in InFlight
    /\ promise' = [promise EXCEPT ![id] = IF ok THEN "fulfilled" ELSE "rejected"]
    /\ microtasks' = jobsOf(reactions[id], id, ok)
    /\ reactions' = [reactions EXCEPT ![id] = <<>>]
    /\ lastDone' = IF ok THEN now ELSE lastDone
    /\ lastOp' = <<"settle", IF ok THEN "fulfilled" ELSE "rejected">>
    /\ UNCHANGED <<now, fetching, lastFetch, children, returned, fires, startedBy>>
    /\ UNCHANGED <<aggVars, msVars, remVars>>

\* line 69: () => this.fetching = false
ThenClearFetching ==
    /\ microtasks # <<>>
    /\ Head(microtasks)[1] = "then"
    /\ fetching' = FALSE
    /\ microtasks' = Tail(microtasks)
    /\ lastOp' = <<"then", "cleared">>
    /\ UNCHANGED <<now, lastFetch, children, promise, reactions, returned, fires,
                   startedBy, lastDone>>
    /\ UNCHANGED <<aggVars, msVars, remVars>>

\* refresh firing the change event whether the awaited build returned or threw
RefreshResumeFireAlways ==
    /\ microtasks # <<>>
    /\ Head(microtasks)[1] = "refresh"
    /\ fires' = Append(fires, Head(microtasks)[2])
    /\ microtasks' = Tail(microtasks)
    /\ lastOp' = <<"resume", "fired">>
    /\ UNCHANGED <<now, fetching, lastFetch, children, promise, reactions, returned,
                   startedBy, lastDone>>
    /\ UNCHANGED <<aggVars, msVars, remVars>>

\* lines 78-79: refresh resumes after its await; a rejection rethrows before line 79
RefreshResume ==
    /\ microtasks # <<>>
    /\ Head(microtasks)[1] = "refresh"
    /\ fires' = IF Head(microtasks)[3] THEN Append(fires, Head(microtasks)[2]) ELSE fires
    /\ microtasks' = Tail(microtasks)
    /\ lastOp' = <<"resume", IF Head(microtasks)[3] THEN "fired" ELSE "threw">>
    /\ UNCHANGED <<now, fetching, lastFetch, children, promise, reactions, returned,
                   startedBy, lastDone>>
    /\ UNCHANGED <<aggVars, msVars, remVars>>

\* time passes between macrotasks
Tick ==
    /\ Idle
    /\ now < MaxTicks * TickMs
    /\ now' = now + TickMs
    /\ lastOp' = <<"tick", "tick">>
    /\ UNCHANGED <<fetching, lastFetch, children, promise, reactions, microtasks,
                   returned, fires, startedBy, lastDone>>
    /\ UNCHANGED <<aggVars, msVars, remVars>>

\* lines 35-42 after construction; Date.now() is positive
ProviderInit ==
    /\ now = TickMs
    /\ fetching = FALSE
    /\ lastFetch = Undefined
    /\ children = Undefined
    /\ promise = <<>>
    /\ reactions = <<>>
    /\ microtasks = <<>>
    /\ returned = Undefined
    /\ fires = <<>>
    /\ startedBy = <<>>
    /\ lastDone = Undefined
    /\ lastOp = <<"init", "init">>

\* ---------------------------------------------------------------- values
\* null / undefined / '' where the code only tests truthiness: item.milestone
\* (line 151), the milestone of a search (line 118), username (line 115)
None == ""

\* a milestone without due_on
NoDue == Undefined

\* new TreeItem(label), lines 91, 98, 101, 137, 144
Message(label) == [kind |-> "message", label |-> label]

\* line 137: `Cannot access ${remote.owner}/${remote.repo}`
CannotAccess(remote) == Message(<<"Cannot access", remote.owner, remote.repo>>)

\* lines 125-132: new Issue(`${item.title} (#${item.number})`, item)
IssueLeaf(item) ==
    [kind |-> "issue",
     label |-> <<"#", item.number>>,
     item |-> item,
     contextValue |-> IF item.pull_request THEN "pull_request" ELSE "issue",
     icon |-> IF item.pull_request THEN "git-pull-request.svg" ELSE "bug.svg"]

\* lines 18-25: new Milestone(label), always expanded, with its issues
MilestoneNode(label, leaves) ==
    [kind |-> "milestone", label |-> label, state |-> "Expanded", issues |-> leaves]

\* ------------------------------------------------- bounds of the inputs
\* milestones one listing holds
MaxMilestones == 3
\* items one search returns
MaxItems == 1
\* issue leaves handed to the tree builder
MaxIssues == 4
\* lines of `git remote -v`
MaxLines == 2

\* All sequences over S of length at most n.
SeqUpTo(S, n) == UNION {[1..k -> S] : k \in 0..n}

Min(a, b) == IF a < b THEN a ELSE b

\* ------------------------------------------------- the milestone selector
\* a.title.localeCompare(b.title), line 229, on the titles the model uses
TitleRank(t) ==
    CASE t = "A" -> 1 [] t = "B" -> 2 [] t = "C" -> 3 [] t = "Z" -> 4 [] OTHER -> 5

localeCompare(a, b) == TitleRank(a) - TitleRank(b)

\* compareDateStrings of ./utils (line 9): a missing date sorts after every date
compareDateStrings(a, b) ==
    IF a = NoDue /\ b = NoDue THEN 0
    ELSE IF a = NoDue THEN 1
    ELSE IF b = NoDue THEN -1
    ELSE a - b

\* the comparator of lines 224-230
milestoneCompare(a, b) ==
    LET cmp == compareDateStrings(a.due_on, b.due_on)
    IN  IF cmp # 0 THEN cmp ELSE localeCompare(a.title, b.title)

\* Array.prototype.sort with that comparator (line 224): stable insertion
RECURSIVE sortInsert(_, _)
sortInsert(x, s) ==
    IF s = <<>> THEN <<x>>
    ELSE IF milestoneCompare(x, Head(s)) <= 0 THEN <<x>> \o s
    ELSE <<Head(s)>> \o sortInsert(x, Tail(s))

RECURSIVE sortMilestones(_)
sortMilestones(s) ==
    IF s = <<>> THEN <<>> ELSE sortInsert(Head(s), sortMilestones(Tail(s)))

\* line 234: slice(0, 2)
KeepMilestones == 2

\* the selector without its filter
filterNothing(sorted) == sorted

\* lines 231-233: drop the undated ones when the first sorted one is dated
filterDated(sorted) ==
    IF Len(sorted) > 0 /\ sorted[1].due_on # NoDue
    THEN SelectSeq(sorted, LAMBDA m : m.due_on # NoDue)
    ELSE sorted

\* lines 234-235: slice(0, 2).map(milestone => milestone.title)
sliceTitles(ms) ==
    [k \in 1..Min(KeepMilestones, Len(ms)) |-> ms[k].title]

\* lines 221-236, on res.data
getCurrentMilestones(data) == sliceTitles(filterDated(sortMilestones(data)))

\* -------------------------------------------------- the remote resolver
\* A URL is the sequence of its parts; the separators "/", "." and ":" are parts
\* of their own, no other part holds one, and no part holds white space.
\* The second regular expression (line 242),
\*     ([^\s]*github\.com\/([^/]+)\/([^ \.]+)[^\s]*)
\* matches at part i when "github.com" "/" owner "/" repo follows: the owner runs
\* to the next "/", the repo runs as long as its parts are not ".".
ownerEnd(url, i) ==
    IF \E j \in (i + 2)..Len(url) : url[j] = "/"
    THEN CHOOSE j \in (i + 2)..Len(url) :
             url[j] = "/" /\ \A k \in (i + 2)..(j - 1) : url[k] # "/"
    ELSE 0

repoEnd(url, j) ==
    IF \E k \in (j + 1)..Len(url) : url[k] = "."
    THEN (CHOOSE k \in (j + 1)..Len(url) :
              url[k] = "." /\ \A l \in (j + 1)..(k - 1) : url[l] # ".") - 1
    ELSE Len(url)

matchesAt(url, i) ==
    /\ i + 1 <= Len(url)
    /\ url[i] = "github.com"
    /\ url[i + 1] = "/"
    /\ ownerEnd(url, i) > i + 2                      \* ([^/]+)\/ : one part or more
    /\ repoEnd(url, ownerEnd(url, i)) > ownerEnd(url, i)   \* ([^ \.]+)

\* the leading [^\s]* is greedy: the last place that matches wins
matchGitHub(url) ==
    LET places == {i \in 1..Len(url) : matchesAt(url, i)}
    IN  IF places = {} THEN [matched |-> FALSE]
        ELSE LET i == CHOOSE x \in places : \A y \in places : y <= x
                 j == ownerEnd(url, i)
             IN  [matched |-> TRUE,
                  url |-> url,                                    \* m[1]
                  owner |-> SubSeq(url, i + 2, j - 1),            \* m[2]
                  repo |-> SubSeq(url, j + 1, repoEnd(url, j))]   \* m[3]

\* allMatches of ./utils (line 9) with /^[^\s]+\s+([^\s]+)/gm, group 1:
\* the second white-space-delimited token of every line
allMatches(lines) == [k \in 1..Len(lines) |-> lines[k].url]

\* new Set(...) iterated by for-of (line 241): first occurrences, in order
RECURSIVE uniqueInOrder(_, _)
uniqueInOrder(s, seen) ==
    IF s = <<>> THEN <<>>
    ELSE IF Head(s) \in seen THEN uniqueInOrder(Tail(s), seen)
    ELSE <<Head(s)>> \o uniqueInOrder(Tail(s), seen \cup {Head(s)})

\* the key the loop of line 241 de-duplicates on: the URL string
remoteUrls(lines) == uniqueInOrder(allMatches(lines), {})

\* fill(url) of git-credential-node (line 245): the stored user, or no data
fill(url, without) ==
    IF url \in without THEN [data |-> FALSE] ELSE [data |-> TRUE, username |-> "octocat"]

\* lines 242-249, for one URL: the remotes it adds
remoteOf(url, without) ==
    LET m == matchGitHub(url)
    IN  IF m.matched /\ fill(m.url, without).data
        THEN << [url |-> m.url, owner |-> m.owner, repo |-> m.repo,
                 username |-> fill(m.url, without).username] >>
        ELSE <<>>

RECURSIVE collectRemotes(_, _)
collectRemotes(urls, without) ==
    IF urls = <<>> THEN <<>>
    ELSE remoteOf(Head(urls), without) \o collectRemotes(Tail(urls), without)

\* lines 238-252, on the stdout of `git remote -v`
getGitHubRemotes(lines, without) == collectRemotes(remoteUrls(lines), without)

\* ----------------------------------------------------- the tree builder
\* Names every object inherits from Object.prototype: milestoneIndex is a plain
\* {} (line 147), so milestoneIndex[label] on one of them is the inherited member
ObjectPrototypeKeys ==
    {"constructor", "toString", "valueOf", "hasOwnProperty", "isPrototypeOf",
     "propertyIsEnumerable", "toLocaleString", "__proto__"}

\* lines 150-151: m && m.title || 'No Milestone'
milestoneLabelOf(issue) ==
    IF issue.item.milestone # None THEN issue.item.milestone ELSE "No Milestone"

\* line 152: milestoneIndex[milestoneLabel]. The own keys of milestoneIndex are the
\* labels of `milestones`; the answer is the place of the group in `milestones`,
\* "inherited" (truthy, and without an issues array) or "undefined"
lookupMilestone(milestones, label) ==
    IF \E k \in 1..Len(milestones) : milestones[k].label = label
    THEN [found |-> "own", at |-> CHOOSE k \in 1..Len(milestones) : milestones[k].label = label]
    ELSE IF label \in ObjectPrototypeKeys
    THEN [found |-> "inherited", at |-> 0]
    ELSE [found |-> "undefined", at |-> 0]

\* lines 149-159: [threw, milestones]
RECURSIVE groupIssues(_, _)
groupIssues(rest, milestones) ==
    IF rest = <<>> THEN [threw |-> FALSE, milestones |-> milestones]
    ELSE LET issue == Head(rest)
             label == milestoneLabelOf(issue)
             hit == lookupMilestone(milestones, label)
         IN  IF hit.found = "undefined"                        \* lines 153-157
             THEN groupIssues(Tail(rest), Append(milestones, MilestoneNode(label, <<issue>>)))
             ELSE IF hit.found = "own"                         \* line 158
             THEN groupIssues(Tail(rest),
                      [milestones EXCEPT ![hit.at].issues = Append(@, issue)])
             ELSE [threw |-> TRUE, milestones |-> milestones]  \* line 158: TypeError

\* flattening any single group, whatever its label
flattensAnySingle(milestones) == Len(milestones) = 1

\* line 161
flattens(milestones) == Len(milestones) = 1 /\ milestones[1].label = "No Milestone"

\* line 144
emptyTree(errs) == IF errs # <<>> THEN errs ELSE <<Message("No issues found")>>

\* lines 143-165
buildTree(iss, errs) ==
    IF iss = <<>> THEN [status |-> "returned", value |-> emptyTree(errs)]
    ELSE LET g == groupIssues(iss, <<>>)
         IN  IF g.threw THEN [status |-> "threw", value |-> <<"TypeError">>]
             ELSE IF flattens(g.milestones)
             THEN [status |-> "returned", value |-> g.milestones[1].issues]
             ELSE [status |-> "returned", value |-> g.milestones]

\* ------------------------------------------------ the inputs of the runs
GitHubUrl(scheme, repo) == <<scheme, "github.com", "/", "acme", "/", repo, ".", "git">>

\* the URLs a line of `git remote -v` may hold
Urls ==
    {GitHubUrl("https://", "widgets"),
     GitHubUrl("ssh://git@", "widgets"),
     GitHubUrl("https://", "gears"),
     <<"git@", "github.com", ":", "acme", "/", "widgets", ".", "git">>,
     <<"https://", "gitlab.com", "/", "acme", "/", "widgets", ".", "git">>}

\* <name>\t<url> (fetch|push)
RemoteLines == [name : {"origin", "upstream"}, url : Urls, kind : {"(fetch)", "(push)"}]

Stdouts == SeqUpTo(RemoteLines, MaxLines)

\* the URLs whose credential lookup may come back empty
CredentialGaps == SUBSET {GitHubUrl("https://", "widgets"), GitHubUrl("https://", "gears")}

\* the milestone listings of SpecMilestones: due dates as day numbers
Milestones == [title : {"A", "B", "C", "Z"}, due_on : {NoDue, 1, 3}]

\* the milestone listings and search results of SpecAgg
AggMilestones == [title : {"A", "B"}, due_on : {NoDue, 1}]

AggListings ==
    {data \in SeqUpTo(AggMilestones, KeepMilestones) :
        \A a, b \in 1..Len(data) : data[a].title = data[b].title => a = b}

\* the milestone titles of the issues handed to the tree builder in SpecTree
TreeTitles == {None, "A", "B", "No Milestone", "constructor"}

\* what a search scoped to milestone m may return as the milestone of an item
ItemMilestones(m) == IF m # None THEN {m} ELSE {None, "A"}

\* the remote lists of SpecAgg: what getGitHubRemotes gives, one remote per repository
RemoteLists ==
    {rs \in {getGitHubRemotes(lines, {}) : lines \in Stdouts} :
        \A a, b \in 1..Len(rs) :
            (rs[a].owner = rs[b].owner /\ rs[a].repo = rs[b].repo) => a = b}

\* ------------------------------------------------- fetchChildren, stepwise
remote == gitRemotes.remotes[ri]

\* the for-of of line 106 moves on, or the loop ends (line 143)
nextRemote ==
    IF ri < Len(gitRemotes.remotes)
    THEN /\ ri' = ri + 1
         /\ pc' = "milestones"
    ELSE /\ ri' = ri
         /\ pc' = "build"

\* lines 135-141, in the catch of remote ri: err.code === 404, or rethrow
catch(code) ==
    IF code = 404
    THEN /\ errors' = Append(errors, CannotAccess(remote))
         /\ denied' = denied \cup {ri}
         /\ nextRemote
         /\ UNCHANGED result
    ELSE /\ pc' = "thrown"
         /\ result' = [status |-> "threw", value |-> <<"HttpError">>]
         /\ UNCHANGED <<errors, denied, ri>>

\* lines 90-102
FetchStart ==
    /\ pc = "start"
    /\ IF ~rootPath
       THEN /\ result' = [status |-> "returned", value |-> <<Message("No folder opened")>>]
            /\ pc' = "done"
            /\ ri' = ri
       ELSE IF gitRemotes.threw
       THEN /\ result' = [status |-> "returned", value |-> <<Message("Not a GitHub repository")>>]
            /\ pc' = "done"
            /\ ri' = ri
       ELSE IF Len(gitRemotes.remotes) = 0
       THEN /\ result' = [status |-> "returned", value |-> <<Message("No GitHub remotes found")>>]
            /\ pc' = "done"
            /\ ri' = ri
       ELSE /\ pc' = "milestones"
            /\ ri' = 1
            /\ UNCHANGED result
    /\ UNCHANGED <<rootPath, gitRemotes, msQueue, q, issues, errors, served, denied, got>>
    /\ UNCHANGED <<provVars, msVars, remVars>>

\* lines 108-111: the milestone listing of remote ri answers
GetMilestonesOk(data) ==
    /\ pc = "milestones"
    /\ LET milestones == getCurrentMilestones(data)
       IN  msQueue' = IF Len(milestones) = 0 THEN <<None>> ELSE milestones
    /\ pc' = "search"
    /\ UNCHANGED <<rootPath, gitRemotes, ri, q, issues, errors, result, served, denied, got>>
    /\ UNCHANGED <<provVars, msVars, remVars>>

\* line 108 throws
GetMilestonesFail(code) ==
    /\ pc = "milestones"
    /\ catch(code)
    /\ UNCHANGED <<rootPath, gitRemotes, msQueue, q, issues, served, got>>
    /\ UNCHANGED <<provVars, msVars, remVars>>

\* lines 114-120
query(r, milestone) ==
    [repo |-> <<r.owner, r.repo>>,
     open |-> TRUE,
     assignee |-> r.username,        \* left out when the username is empty
     milestone |-> milestone]        \* left out when there is no milestone

\* the items a search of remote ri for milestone m may return, numbered from n
SearchResults(m, n) ==
    {[k \in 1..Len(shape) |->
         [repo |-> <<remote.owner, remote.repo>>, number |-> n + k,
          milestone |-> shape[k].milestone, pull_request |-> shape[k].pull_request]] :
     shape \in SeqUpTo([milestone : ItemMilestones(m), pull_request : BOOLEAN], MaxItems)}

\* lines 122-133: the search for the head of msQueue answers
SearchOk(items) ==
    /\ pc = "search"
    /\ q' = query(remote, Head(msQueue))
    /\ LET leaves == [k \in 1..Len(items) |-> IssueLeaf(items[k])]
       IN  /\ issues' = issues \o leaves
           /\ got' = [got EXCEPT ![ri] = @ \o leaves]
    /\ msQueue' = Tail(msQueue)
    /\ IF Tail(msQueue) = <<>> THEN nextRemote ELSE UNCHANGED <<pc, ri>>
    /\ UNCHANGED <<rootPath, gitRemotes, errors, result, served, denied>>
    /\ UNCHANGED <<provVars, msVars, remVars>>

\* line 123 throws
SearchFail(code) ==
    /\ pc = "search"
    /\ q' = query(remote, Head(msQueue))
    /\ catch(code)
    /\ UNCHANGED <<rootPath, gitRemotes, msQueue, issues, served, got>>
    /\ UNCHANGED <<provVars, msVars, remVars>>

\* lines 143-165
Finish ==
    /\ pc = "build"
    /\ result' = buildTree(issues, errors)
    /\ pc' = IF result'.status = "threw" THEN "thrown" ELSE "done"
    /\ UNCHANGED <<rootPath, gitRemotes, ri, msQueue, q, issues, errors, served, denied, got>>
    /\ UNCHANGED <<provVars, msVars, remVars>>

\* lines 61-63: getChildren(element) for a Milestone the host was served
GetChildrenMilestone(k) ==
    /\ pc = "done"
    /\ k \in 1..Len(result.value)
    /\ result.value[k].kind = "milestone"
    /\ served' = [element |-> k, value |-> result.value[k].issues]
    /\ UNCHANGED <<pc, rootPath, gitRemotes, ri, msQueue, q, issues, errors, result, denied, got>>
    /\ UNCHANGED <<provVars, msVars, remVars>>

\* ----------------------------------------- the pure functions, as one step
GetCurrentMilestones ==
    /\ ~msOut.done
    /\ msOut' = [done |-> TRUE, titles |-> getCurrentMilestones(msData)]
    /\ UNCHANGED <<msData, provVars, aggVars, remVars>>

GetGitHubRemotes ==
    /\ ~remotesOut.done
    /\ remotesOut' = [done |-> TRUE, remotes |-> getGitHubRemotes(stdout, noCredential)]
    /\ UNCHANGED <<stdout, noCredential, provVars, aggVars, msVars>>

\* ------------------------------------------------------- initial states
AggIdle ==
    /\ pc = "idle"
    /\ rootPath = TRUE
    /\ gitRemotes = [threw |-> FALSE, remotes |-> <<>>]
    /\ ri = 0
    /\ msQueue = <<>>
    /\ q = [repo |-> <<>>, open |-> TRUE, assignee |-> None, milestone |-> None]
    /\ issues = <<>>
    /\ errors = <<>>
    /\ result = [status |-> "none", value |-> <<>>]
    /\ served = [element |-> 0, value |-> <<>>]
    /\ denied = {}
    /\ got = <<>>

MsIdle ==
    /\ msData = <<>>
    /\ msOut = [done |-> TRUE, titles |-> <<>>]

RemIdle ==
    /\ stdout = <<>>
    /\ noCredential = {}
    /\ remotesOut = [done |-> TRUE, remotes |-> <<>>]

Init == ProviderInit /\ AggIdle /\ MsIdle /\ RemIdle

\* a fetchChildren run about to start, in some workspace
InitAgg ==
    /\ ProviderInit /\ MsIdle /\ RemIdle
    /\ pc = "start"
    /\ rootPath \in BOOLEAN
    /\ gitRemotes \in {[threw |-> TRUE, remotes |-> <<>>]}
                      \cup {[threw |-> FALSE, remotes |-> rs] : rs \in RemoteLists}
    /\ ri = 0
    /\ msQueue = <<>>
    /\ q = [repo |-> <<>>, open |-> TRUE, assignee |-> None, milestone |-> None]
    /\ issues = <<>>
    /\ errors = <<>>
    /\ result = [status |-> "none", value |-> <<>>]
    /\ served = [element |-> 0, value |-> <<>>]
    /\ denied = {}
    /\ got = [i \in 1..Len(gitRemotes.remotes) |-> <<>>]

\* the leaves of line 124 for the issues of one repository, numbered by position
TreeInputs ==
    {[k \in 1..Len(ms) |->
         IssueLeaf([repo |-> <<<<"acme">>, <<"widgets">>>>, number |-> k,
                    milestone |-> ms[k], pull_request |-> FALSE])] :
     ms \in SeqUpTo(TreeTitles, MaxIssues)}

\* the tree builder about to run (line 143) on some aggregated lists
InitTree ==
    /\ ProviderInit /\ MsIdle /\ RemIdle
    /\ pc = "build"
    /\ rootPath = TRUE
    /\ gitRemotes = [threw |-> FALSE, remotes |-> <<>>]
    /\ ri = 0
    /\ msQueue = <<>>
    /\ q = [repo |-> <<>>, open |-> TRUE, assignee |-> None, milestone |-> None]
    /\ issues \in TreeInputs
    /\ errors \in {<<>>, <<Message(<<"Cannot access", <<"acme">>, <<"gears">>>>)>>}
    /\ result = [status |-> "none", value |-> <<>>]
    /\ served = [element |-> 0, value |-> <<>>]
    /\ denied = {}
    /\ got = <<>>

\* the open milestones of one repository: GitHub keeps their titles distinct
Listings ==
    {data \in SeqUpTo(Milestones, MaxMilestones) :
        \A a, b \in 1..Len(data) : data[a].title = data[b].title => a = b}

InitMilestones ==
    /\ ProviderInit /\ AggIdle /\ RemIdle
    /\ msData \in Listings
    /\ msOut = [done |-> FALSE, titles |-> <<>>]

InitRemotes ==
    /\ ProviderInit /\ AggIdle /\ MsIdle
    /\ stdout \in Stdouts
    /\ noCredential \in CredentialGaps
    /\ remotesOut = [done |-> FALSE, remotes |-> <<>>]

\* ---------------------------------------------------- the specifications
Settle == \E id \in 1..MaxBuilds, ok \in BOOLEAN : BuildSettle(id, ok)

Next ==
    \/ GetChildrenRoot
    \/ Refresh
    \/ Poll
    \/ Settle
    \/ ThenClearFetching
    \/ RefreshResume
    \/ Tick

Spec == Init /\ [][Next]_vars

MilestonesAnswer == \E data \in AggListings : GetMilestonesOk(data)

MilestonesThrow == \E code \in {404, 500} : GetMilestonesFail(code)

SearchAnswer ==
    /\ pc = "search"
    /\ \E items \in SearchResults(Head(msQueue), Len(issues)) : SearchOk(items)

SearchThrow == \E code \in {404, 500} : SearchFail(code)

ExpandMilestone == \E k \in 1..Len(result.value) : GetChildrenMilestone(k)

NextAgg ==
    \/ FetchStart
    \/ MilestonesAnswer
    \/ MilestonesThrow
    \/ SearchAnswer
    \/ SearchThrow
    \/ Finish
    \/ ExpandMilestone

SpecAgg == InitAgg /\ [][NextAgg]_vars

NextTree ==
    \/ Finish
    \/ ExpandMilestone

SpecTree == InitTree /\ [][NextTree]_vars

SpecMilestones == InitMilestones /\ [][GetCurrentMilestones]_vars

SpecRemotes == InitRemotes /\ [][GetGitHubRemotes]_vars

\* ===================================================== the claims, on Spec
\* the fields of the provider and what hangs on them, without the history variables
cacheVars == <<fetching, lastFetch, children, promise, reactions, microtasks, fires>>

\* a step of the handler started a build
BuildStarted == Len(promise') = Len(promise) + 1

\* C1: at most one build is in flight at any time; a refresh or poll that arrives
\* while a build is in flight changes neither the cached promise nor lastFetch,
\* starts no build and fires no change event; a getChildren(root) that arrives then
\* returns the in-flight promise and starts no build.
C1_OneBuildInFlight ==
    /\ [](Cardinality(InFlight) <= 1)
    /\ [][(InFlight # {} /\ (Refresh \/ Poll)) => UNCHANGED cacheVars]_vars
    /\ [][(InFlight # {} /\ GetChildrenRoot) =>
              /\ returned' = children
              /\ children \in InFlight
              /\ UNCHANGED cacheVars]_vars

\* the host asked for the root while a build was running and was handed the pending
\* promise of that build, the busy flag still set
C1_Witness ==
    /\ InFlight # {}
    /\ lastOp = <<"getChildren", "cached">>
    /\ returned \in InFlight
    /\ fetching

\* C2 as stated: with a build completed and none in flight, poll rebuilds iff more
\* than 30 minutes have passed since the last build completed, and changes nothing
\* otherwise.
C2_PollSinceCompletion ==
    [][(Poll /\ InFlight = {} /\ lastDone # Undefined) =>
          /\ BuildStarted <=> (now - lastDone > StaleMs)
          /\ (now - lastDone <= StaleMs) => UNCHANGED cacheVars]_vars

\* C2 amended: with a build completed and none in flight, poll rebuilds iff the busy
\* flag is clear and more than 30 minutes have passed since the most recent build was
\* started (lastFetch), and changes nothing otherwise.
C2_PollSinceStart ==
    [][(Poll /\ InFlight = {} /\ lastDone # Undefined) =>
          /\ BuildStarted <=> (~fetching /\ now - lastFetch > StaleMs)
          /\ ~(~fetching /\ now - lastFetch > StaleMs) => UNCHANGED cacheVars]_vars

\* poll has just rebuilt a tree that an earlier build had completed
C2_Witness ==
    /\ lastOp = <<"poll", "build">>
    /\ Len(promise) >= 2
    /\ promise[Len(promise) - 1] = "fulfilled"
    /\ lastDone # Undefined

\* how often the change event fired for build id
FiresFor(id) == Cardinality({k \in 1..Len(fires) : fires[k] = id})

\* C9: the change event fires exactly once for each refresh that started a build
\* whose build completed, and only once that build's promise is the cached value,
\* fulfilled, with the busy flag cleared; it fires for no dropped refresh, for no
\* refresh whose build failed, and for no build the host's getChildren started.
C9_FireOncePerCompletedRefresh ==
    /\ [](\A id \in 1..Len(promise) :
             /\ FiresFor(id) <= 1
             /\ FiresFor(id) = 1 => (startedBy[id] = "refresh" /\ promise[id] = "fulfilled")
             /\ (Idle /\ startedBy[id] = "refresh" /\ promise[id] = "fulfilled")
                    => FiresFor(id) = 1)
    /\ [][fires' # fires =>
              /\ Len(fires') = Len(fires) + 1
              /\ children = fires'[Len(fires')]
              /\ promise[children] = "fulfilled"
              /\ ~fetching]_vars
    /\ [][(fetching /\ (Refresh \/ Poll)) => UNCHANGED <<fires, reactions, microtasks>>]_vars

\* one refresh completed and fired, a later one failed and did not
C9_Witness ==
    /\ Idle
    /\ \E a, b \in 1..Len(promise) :
           /\ startedBy[a] = "refresh" /\ promise[a] = "fulfilled" /\ FiresFor(a) = 1
           /\ startedBy[b] = "refresh" /\ promise[b] = "rejected" /\ FiresFor(b) = 0

\* C10 as stated: between handlers, the busy flag is set exactly while a build is
\* in flight, so a refresh is ignored only then.
C10_BusyIffInFlight == Idle => (fetching <=> InFlight # {})

\* ================================================== the claims, on SpecAgg
\* the aggregation loop of lines 106-142 has ended
LoopEnded == pc \in {"build", "done"}

RepoOf(r) == <<r.owner, r.repo>>

\* the aggregated leaves that come from remote i
IssuesOf(i) == SelectSeq(issues, LAMBDA leaf : leaf.item.repo = RepoOf(gitRemotes.remotes[i]))

CountIn(seq, x) == Cardinality({k \in 1..Len(seq) : seq[k] = x})

\* C3 as stated: when the loop ends, every remote one of whose calls failed with 404
\* has exactly one message in errors and no issue in issues, and every other remote
\* has in issues exactly what its own searches returned.
C3_DeniedRemoteSkipped ==
    LoopEnded =>
        \A i \in 1..Len(gitRemotes.remotes) :
            IF i \in denied
            THEN /\ CountIn(errors, CannotAccess(gitRemotes.remotes[i])) = 1
                 /\ IssuesOf(i) = <<>>
            ELSE IssuesOf(i) = got[i]

\* C4 as stated: the tree of a completed build holds one "Cannot access" leaf for
\* each inaccessible remote, whether or not other remotes returned issues. (Taken
\* where the inaccessible remotes left no issue of their own behind, so that the
\* issues of the tree are those of other remotes.)
C4_DeniedRemoteShown ==
    (pc = "done" /\ result.status = "returned" /\ \A i \in denied : IssuesOf(i) = <<>>) =>
        \A i \in denied : CountIn(result.value, CannotAccess(gitRemotes.remotes[i])) = 1

\* ================================================ the claim, on SpecRemotes
\* the first line of stdout that names the URL
FirstLine(url) == CHOOSE k \in 1..Len(stdout) :
                      stdout[k].url = url /\ \A l \in 1..(k - 1) : stdout[l].url # url

\* C5 as stated: the resolver returns at most one GitRemote per (owner, repo), in
\* order of first appearance.
C5_OneRemotePerRepo ==
    remotesOut.done =>
        LET rs == remotesOut.remotes
        IN  \A a, b \in 1..Len(rs) :
                /\ (rs[a].owner = rs[b].owner /\ rs[a].repo = rs[b].repo) => a = b
                /\ a < b => FirstLine(rs[a].url) < FirstLine(rs[b].url)

\* =================================================== the claims, on SpecTree
\* the group an issue belongs to, by the claim: its milestone's title, or 'No Milestone'
ExpectedLabel(leaf) ==
    IF leaf.item.milestone = None THEN "No Milestone" ELSE leaf.item.milestone

FirstWith(label) == CHOOSE k \in 1..Len(issues) :
                        /\ ExpectedLabel(issues[k]) = label
                        /\ \A l \in 1..(k - 1) : ExpectedLabel(issues[l]) # label

\* the groups of a root list: the list itself, or the one group a flat list stands for
GroupsOf(value) ==
    IF \A k \in 1..Len(value) : value[k].kind = "milestone"
    THEN value
    ELSE <<MilestoneNode("No Milestone", value)>>

\* the issues are partitioned by milestone title: groups in first-seen order, each
\* holding, in aggregated order, exactly the issues of its title
Partitioned(groups) ==
    /\ \A k \in 1..Len(groups) :
           /\ groups[k].issues # <<>>
           /\ groups[k].issues =
                  SelectSeq(issues, LAMBDA leaf : ExpectedLabel(leaf) = groups[k].label)
    /\ \A a, b \in 1..Len(groups) :
           a < b => FirstWith(groups[a].label) < FirstWith(groups[b].label)
    /\ \A k \in 1..Len(issues) :
           \E g \in 1..Len(groups) : groups[g].label = ExpectedLabel(issues[k])

\* C6 as stated: for every non-empty aggregated issue list the tree builder returns
\* the partition of the list by milestone title.
C6_PartitionByMilestone ==
    (pc \in {"done", "thrown"} /\ issues # <<>>) =>
        /\ result.status = "returned"
        /\ Partitioned(GroupsOf(result.value))

\* what C6 says, for the lists none of whose titles names a member of Object.prototype
C6_PartitionOfPlainTitles ==
    (pc \in {"done", "thrown"} /\ issues # <<>>
        /\ \A k \in 1..Len(issues) : issues[k].item.milestone \notin ObjectPrototypeKeys) =>
        /\ result.status = "returned"
        /\ Partitioned(GroupsOf(result.value))

\* C7: for a non-empty issue list the returned root is a list of Milestone nodes
\* only, except when every issue falls in the one group 'No Milestone': then the
\* root is that group's issue leaves themselves; groups and leaves never mix.
C7_RootShape ==
    (pc = "done" /\ issues # <<>>) =>
        /\ result.status = "returned"
        /\ IF \A k \in 1..Len(issues) : ExpectedLabel(issues[k]) = "No Milestone"
           THEN result.value = issues
           ELSE \A k \in 1..Len(result.value) : result.value[k].kind = "milestone"
        /\ \/ \A k \in 1..Len(result.value) : result.value[k].kind = "milestone"
           \/ \A k \in 1..Len(result.value) : result.value[k].kind = "issue"

\* three issues without milestone come back as the root list, unwrapped
C7_Witness ==
    /\ pc = "done"
    /\ Len(issues) = 3
    /\ \A k \in 1..3 : issues[k].item.milestone = None
    /\ result.value = issues

\* ============================================= the claim, on SpecMilestones
Dated(m) == m.due_on # NoDue

\* a comes strictly before b: by due date, the undated last, then by title
Before(a, b) ==
    \/ Dated(a) /\ ~Dated(b)
    \/ Dated(a) /\ Dated(b) /\ a.due_on < b.due_on
    \/ Dated(a) = Dated(b) /\ a.due_on = b.due_on /\ TitleRank(a.title) < TitleRank(b.title)

\* the milestones the selector may return: the dated ones if there is one, else all
Candidates ==
    IF \E i \in 1..Len(msData) : Dated(msData[i])
    THEN {i \in 1..Len(msData) : Dated(msData[i])}
    ELSE 1..Len(msData)

\* C8: getCurrentMilestones returns at most 2 titles, the first ones of the listing
\* sorted by due date ascending, the undated last, ties by title; when a fetched
\* milestone has a due date, no undated one is returned.
C8_CurrentMilestones ==
    msOut.done =>
        LET out == msOut.titles
            n == Min(2, Cardinality(Candidates))
        IN  /\ Len(out) = n
            /\ \E p \in [1..n -> Candidates] :
                   /\ \A k, l \in 1..n : p[k] = p[l] => k = l
                   /\ \A k \in 1..n : out[k] = msData[p[k]].title
                   /\ \A k, l \in 1..n : k < l => Before(msData[p[k]], msData[p[l]])
                   /\ \A i \in Candidates \ {p[k] : k \in 1..n} :
                          \A k \in 1..n : Before(msData[p[k]], msData[i])
            /\ (\E i \in 1..Len(msData) : Dated(msData[i])) =>
                   \A k \in 1..Len(out) :
                       \A i \in 1..Len(msData) : msData[i].title = out[k] => Dated(msData[i])
            /\ msData = <<[title |-> "A", due_on |-> 3], [title |-> "B", due_on |-> NoDue],
                          [title |-> "C", due_on |-> 1]>> => out = <<"C", "A">>
            /\ msData = <<[title |-> "Z", due_on |-> NoDue], [title |-> "A", due_on |-> NoDue]>>
                   => out = <<"A", "Z">>

\* A due in March, B undated, C due in January: C and A, and not B
C8_Witness ==
    /\ msOut.done
    /\ msData = <<[title |-> "A", due_on |-> 3], [title |-> "B", due_on |-> NoDue],
                  [title |-> "C", due_on |-> 1]>>
    /\ msOut.titles = <<"C", "A">>

====
